---- MODULE Spec2Model ----
(***************************************************************************)
(* Auto-assignment pass of the scheduling API (src/main.py, auto_assign)   *)
(* over the shift and staff collections described by src/schemas.py.       *)
(*                                                                         *)
(* Representation.  A wall-clock time "HH:MM" is the number of minutes     *)
(* since 00:00 (0..1439); for zero-padded 24-hour strings the string       *)
(* order used by the code ("<=", ">=") is the order of these numbers.      *)
(* Hours are kept in minutes (1 hour = 60) so that the 0.1-hour skill      *)
(* bonus and every duration stay integers.  A calendar date is a day       *)
(* number; day 1 is a Monday.                                              *)
(***************************************************************************)
EXTENDS Integers, Sequences, FiniteSets, TLC

VARIABLES
    db,           \* the shift collection: shift id -> document
    staff_db,     \* the staff collection: staff id -> document
    pc,           \* "idle" | "loop" | "done": position of the request handler
    req_date,     \* AutoAssignRequest.date (NoDate when absent)
    shifts,       \* the fetched shift ids, in iteration order
    docs,         \* the fetched in-memory documents, by shift id
    idx,          \* position of the for-loop over shifts
    staff_hours,  \* staff id -> accumulated minutes
    assignments,  \* staff id -> booked windows
    assigned,     \* the local list `assigned` of the last iteration
    assigned_in,  \* its value when the iteration began (line 273)
    scored,       \* the sorted local list `scored` of the last iteration
    updates,      \* ids of the shifts the pass persisted
    result,       \* the handler's return value
    clock         \* source of updated_at stamps

vars == <<db, staff_db, pc, req_date, shifts, docs, idx, staff_hours,
          assignments, assigned, assigned_in, scored, updates, result, clock>>

----------------------------------------------------------------------------
(* Bounds and input sets *)

MaxRequired == 2

StaffIds == {"a", "b"}
StaffOrder == <<"a", "b">>
ShiftIds == {1, 2}
ShiftOrder == <<1, 2>>
Dates == {1, 2}
NoDate == 0
None == "none"

DayNames == <<"mon", "tue", "wed", "thu", "fri", "sat", "sun">>

\* 06:00-14:00, 12:00-22:00, 22:00-06:00 (overnight), 06:00-06:00
ShiftWindows == {<<360, 840>>, <<720, 1320>>, <<1320, 360>>, <<360, 360>>}

FullWeek == {[day |-> d, start |-> 0, end |-> 1439] : d \in {"mon", "tue"}}
MondayMorning == {[day |-> "mon", start |-> 420, end |-> 840]}

\* Staff documents (schemas.py, Staff): role, preference, weekly maximum,
\* number of skills, availability windows, active flag.
Baseline == [role |-> "cna", preferred_shift |-> None, max_hours_per_week |-> 9,
             skills |-> 0, availability |-> FullWeek, is_active |-> TRUE]

StaffProfiles ==
    {Baseline,
     [Baseline EXCEPT !.max_hours_per_week = 8, !.skills = 30],
     [Baseline EXCEPT !.max_hours_per_week = 8, !.preferred_shift = "day"],
     [Baseline EXCEPT !.role = "rn"],
     [Baseline EXCEPT !.availability = MondayMorning],
     [Baseline EXCEPT !.is_active = FALSE]}

ShiftType(w) == IF w[1] >= 1200 THEN "night" ELSE "day"

\* Shift documents (schemas.py, Shift).  has_assigned says whether the stored
\* document carries the key assigned_staff_ids at all.
ShiftDoc(d, w, n, k, q, st) ==
    [date |-> d, type |-> ShiftType(w), start_time |-> w[1], end_time |-> w[2],
     required_role |-> "cna", required_count |-> n,
     has_assigned |-> k, assigned_staff_ids |-> q, status |-> st,
     updated_at |-> 0]

FirstShiftInputs ==
    {ShiftDoc(1, w, n, kq[1], kq[2], "planned") :
        w \in ShiftWindows, n \in 1..MaxRequired,
        kq \in {<<FALSE, <<>> >>, <<TRUE, <<>> >>, <<TRUE, <<"a">> >>}}

SecondShiftInputs ==
    {ShiftDoc(d, w, 1, TRUE, q, st) :
        d \in Dates, w \in {<<360, 840>>, <<720, 1320>>, <<1320, 360>>},
        q \in {<<>>, <<"a">>}, st \in {"planned", "in_progress"}}

----------------------------------------------------------------------------
(* Pure helpers *)

Max(x, y) == IF x >= y THEN x ELSE y
Min(x, y) == IF x <= y THEN x ELSE y

Range(q) == {q[i] : i \in DOMAIN q}

\* line 206
time_overlap(s1, e1, s2, e2) == ~(e1 <= s2 \/ e2 <= s1)

\* A plausible slip: the overnight correction applied to negative values only.
shift_duration_no_wrap(sh) ==
    LET diff == (sh.end_time - sh.start_time) % 1440
    IN  IF diff < 0 THEN diff + 1440 ELSE diff

\* lines 228-238: timedelta.seconds is the difference modulo one day; a
\* result <= 0 gets 24 hours added.  In minutes.
shift_duration_hours(sh) ==
    LET diff == (sh.end_time - sh.start_time) % 1440
    IN  IF diff <= 0 THEN diff + 1440 ELSE diff

\* line 257: strftime("%a").lower()[:3]
day_key(date) == DayNames[((date - 1) % 7) + 1]

\* A plausible slip: the preference test dropped.
is_available_any_shift(staff_doc, sh) ==
    \E a \in staff_doc.availability :
        /\ a.day = day_key(sh.date)
        /\ a.start <= sh.start_time
        /\ a.end >= sh.end_time

\* lines 255-262
is_available(staff_doc, sh) ==
    LET preferred_ok == \/ staff_doc.preferred_shift \in {None, sh.type}
                        \/ staff_doc.preferred_shift = None
    IN  IF \E a \in staff_doc.availability :
               /\ a.day = day_key(sh.date)
               /\ a.start <= sh.start_time
               /\ a.end >= sh.end_time
        THEN preferred_ok
        ELSE FALSE

\* lines 285-289
has_overlap(sid, sh, asg) ==
    \E i \in DOMAIN asg[sid] :
        /\ asg[sid][i].date = sh.date
        /\ time_overlap(asg[sid][i].start, asg[sid][i].end,
                        sh.start_time, sh.end_time)

\* lines 292-296, in minutes
hours_left(s, hours) == Max(0, s.max_hours_per_week * 60 - hours)

Score(s, sh, hours) ==
    LET preferred_bonus == IF s.preferred_shift = sh.type THEN 60 ELSE 0
        skill_bonus == Min(120, s.skills * 6)
    IN  hours_left(s, hours) + preferred_bonus + skill_bonus

Slot(sh) == [date |-> sh.date, start |-> sh.start_time, end |-> sh.end_time]

----------------------------------------------------------------------------
(* The pass *)

\* lines 215-222: status in {planned, published} and, with a date, the
\* document's date within that day.
Fetched(date) ==
    SelectSeq(ShiftOrder,
              LAMBDA i : /\ db[i].status \in {"planned", "published"}
                         /\ (date /= NoDate => db[i].date = date))

\* line 223
ActiveStaff == SelectSeq(StaffOrder, LAMBDA sid : staff_db[sid].is_active)

\* sh.get("assigned_staff_ids", [])
GetAssigned(d) == IF d.has_assigned THEN d.assigned_staff_ids ELSE <<>>

\* lines 246-252 for one shift: every listed id gets the window and the hours
RECURSIVE PreloadIds(_, _, _)
PreloadIds(ids, sh, tr) ==
    IF ids = <<>> THEN tr
    ELSE LET sid == Head(ids)
             nxt == [hours |-> [tr.hours EXCEPT ![sid] = @ + shift_duration_hours(sh)],
                     slots |-> [tr.slots EXCEPT ![sid] = Append(@, Slot(sh))]]
         IN  PreloadIds(Tail(ids), sh, nxt)

\* lines 244-252 over the fetched shifts
RECURSIVE Preload(_, _)
Preload(ids, tr) ==
    IF ids = <<>> THEN tr
    ELSE LET sh == db[Head(ids)]
         IN  Preload(Tail(ids), PreloadIds(GetAssigned(sh), sh, tr))

EmptyTracker == [hours |-> [sid \in StaffIds |-> 0],
                 slots |-> [sid \in StaffIds |-> <<>>]]

\* lines 277-297: the candidates of the shift's role that are available and
\* free, each with its score, in staff order
RECURSIVE ScoreCandidates(_, _)
ScoreCandidates(cands, sh) ==
    IF cands = <<>> THEN <<>>
    ELSE LET sid == Head(cands)
             s == staff_db[sid]
             rest == ScoreCandidates(Tail(cands), sh)
         IN  IF s.role /= sh.required_role THEN rest
             ELSE IF ~is_available(s, sh) THEN rest
             ELSE IF has_overlap(sid, sh, assignments) THEN rest
             ELSE <<[score |-> Score(s, sh, staff_hours[sid]), sid |-> sid]>> \o rest

\* A plausible slip: the list left in candidate order.
Unsorted(q) == q

\* line 299: stable sort, highest score first
RECURSIVE SortScored(_)
SortScored(q) ==
    IF q = <<>> THEN <<>>
    ELSE LET n == Len(q)
             init == SortScored(SubSeq(q, 1, n - 1))
             x == q[n]
             keep == {i \in DOMAIN init : init[i].score >= x.score}
             k == IF keep = {} THEN 0 ELSE CHOOSE i \in keep : \A j \in keep : j <= i
         IN  SubSeq(init, 1, k) \o <<x>> \o SubSeq(init, k + 1, Len(init))

\* A plausible slip: an off-by-one in the loop's stop test.
SlotFullLate(lst, needed) == Len(lst) > needed

\* line 302
SlotFull(lst, needed) == Len(lst) >= needed

\* A plausible slip: the list replaced instead of extended.
ReplaceStaff(lst, sid) == <<sid>>

\* line 306
AppendStaff(lst, sid) == Append(lst, sid)

\* lines 301-306: the ids taken from the sorted list, and the list they extend
RECURSIVE Fill(_, _, _)
Fill(lst, q, needed) ==
    IF q = <<>> \/ SlotFull(lst, needed) THEN lst
    ELSE Fill(AppendStaff(lst, Head(q).sid), Tail(q), needed)

\* how many entries of the sorted list the loop consumed
RECURSIVE Taken(_, _, _)
Taken(lst, q, needed) ==
    IF q = <<>> \/ SlotFull(lst, needed) THEN 0
    ELSE 1 + Taken(AppendStaff(lst, Head(q).sid), Tail(q), needed)

\* A plausible slip: every visited shift written back.
AlwaysChanged(lst, d) == TRUE

\* line 313: assigned != sh.get("assigned_staff_ids", [])
Changed(lst, d) == lst /= GetAssigned(d)

----------------------------------------------------------------------------
(* State machine *)

Init ==
    /\ db \in {f \in [ShiftIds -> FirstShiftInputs \cup SecondShiftInputs] :
                   f[1] \in FirstShiftInputs /\ f[2] \in SecondShiftInputs}
    /\ staff_db \in [StaffIds -> StaffProfiles]
    /\ pc = "idle"
    /\ req_date = NoDate
    /\ shifts = <<>>
    /\ docs = <<>>
    /\ idx = 1
    /\ staff_hours = EmptyTracker.hours
    /\ assignments = EmptyTracker.slots
    /\ assigned = <<>>
    /\ assigned_in = <<>>
    /\ scored = <<>>
    /\ updates = <<>>
    /\ result = [updated |-> 0, shifts |-> <<>>]
    /\ clock = 0

\* POST /assign/auto, lines 210-269: fetch, seed the tracker, start the loop
StartPass ==
    /\ pc \in {"idle", "done"}
    /\ \E date \in {NoDate} \cup Dates :
         LET ids == Fetched(date)
             tr == Preload(ids, EmptyTracker)
         IN  /\ req_date' = date
             /\ shifts' = ids
             /\ docs' = [i \in Range(ids) |-> db[i]]
             /\ staff_hours' = tr.hours
             /\ assignments' = tr.slots
    /\ idx' = 1
    /\ assigned' = <<>>
    /\ assigned_in' = <<>>
    /\ scored' = <<>>
    /\ updates' = <<>>
    /\ pc' = "loop"
    /\ UNCHANGED <<db, staff_db, result, clock>>

\* lines 270-275: a shift whose list already has the required length
SkipShift ==
    /\ pc = "loop"
    /\ idx <= Len(shifts)
    /\ LET i == shifts[idx]
           lst == GetAssigned(docs[i])
       IN  /\ Len(lst) >= docs[i].required_count
           /\ assigned' = lst
           /\ assigned_in' = lst
    /\ idx' = idx + 1
    /\ UNCHANGED <<db, staff_db, pc, req_date, shifts, docs, staff_hours,
                   assignments, scored, updates, result, clock>>

\* lines 270-316: one iteration that scores, fills and writes back
FillShift ==
    /\ pc = "loop"
    /\ idx <= Len(shifts)
    /\ LET i == shifts[idx]
           sh == docs[i]
           needed == sh.required_count
           lst == GetAssigned(docs[i])
           sorted == SortScored(ScoreCandidates(ActiveStaff, sh))
           out == Fill(lst, sorted, needed)
           took == {sorted[k].sid : k \in 1..Taken(lst, sorted, needed)}
           \* the list object of the document is the one appended to
           doc == IF docs[i].has_assigned
                  THEN [docs[i] EXCEPT !.assigned_staff_ids = out]
                  ELSE docs[i]
       IN  /\ ~(Len(lst) >= needed)
           /\ scored' = sorted
           /\ assigned_in' = lst
           /\ assigned' = out
           /\ docs' = [docs EXCEPT ![i] = doc]
           /\ assignments' = [sid \in StaffIds |->
                                IF sid \in took
                                THEN Append(assignments[sid], Slot(sh))
                                ELSE assignments[sid]]
           /\ staff_hours' = [sid \in StaffIds |->
                                IF sid \in took
                                THEN staff_hours[sid] + shift_duration_hours(sh)
                                ELSE staff_hours[sid]]
           /\ IF Changed(out, doc)
              THEN /\ db' = [db EXCEPT ![i] =
                                [@ EXCEPT !.has_assigned = TRUE,
                                          !.assigned_staff_ids = out,
                                          !.status = "published",
                                          !.updated_at = clock + 1]]
                   /\ clock' = clock + 1
                   /\ updates' = Append(updates, i)
              ELSE UNCHANGED <<db, clock, updates>>
    /\ idx' = idx + 1
    /\ UNCHANGED <<staff_db, pc, req_date, shifts, result>>

\* lines 318-319
FinishPass ==
    /\ pc = "loop"
    /\ idx > Len(shifts)
    /\ result' = [updated |-> Len(updates),
                  shifts |-> [k \in DOMAIN updates |-> db[updates[k]]]]
    /\ pc' = "done"
    /\ UNCHANGED <<db, staff_db, req_date, shifts, docs, idx, staff_hours,
                   assignments, assigned, assigned_in, scored, updates, clock>>

Next == StartPass \/ SkipShift \/ FillShift \/ FinishPass

Spec == Init /\ [][Next]_vars

----------------------------------------------------------------------------
(* Vocabulary of the properties *)

\* an iteration of the loop has run; Cur is the shift it visited
Visited == pc \in {"loop", "done"} /\ idx > 1
Cur == shifts[idx - 1]
Needed == docs[Cur].required_count

\* the last iteration went past the skip test of line 274
Attempted == Visited /\ Len(assigned_in) < Needed

\* the ids the last iteration appended
NewIds == {assigned[k] : k \in (Len(assigned_in) + 1)..Len(assigned)}

NoDuplicates(q) == \A j, k \in DOMAIN q : j /= k => q[j] /= q[k]

IsPrefix(p, q) == Len(p) <= Len(q) /\ \A k \in DOMAIN p : p[k] = q[k]

\* end - start, plus a day when the end is not after the start (minutes)
ClockDuration(st, en) == IF en > st THEN en - st ELSE en - st + 1440

\* sample clock times: 00:00, 00:01, 06:00, 11:59, 12:00, 14:00, 22:00, 23:59
ClockTimes == {0, 1, 360, 719, 720, 840, 1320, 1439}

RECURSIVE SlotMinutes(_)
SlotMinutes(q) ==
    IF q = <<>> THEN 0
    ELSE ClockDuration(Head(q).start, Head(q).end) + SlotMinutes(Tail(q))

\* the stored shifts that list sid
Listing(sid) == {i \in ShiftIds : sid \in Range(GetAssigned(db[i]))}

RECURSIVE ListedMinutes(_)
ListedMinutes(S) ==
    IF S = {} THEN 0
    ELSE LET i == CHOOSE x \in S : TRUE
         IN  ClockDuration(db[i].start_time, db[i].end_time) + ListedMinutes(S \ {i})

\* the list a shift has as far as the running pass is concerned: the list of
\* its fetched document once the loop appended to it, the stored list
\* otherwise
ListOf(d, m, i) ==
    IF i \in DOMAIN m /\ m[i].has_assigned
    THEN m[i].assigned_staff_ids
    ELSE GetAssigned(d[i])

DoubleBooked(d, m) ==
    \E sid \in StaffIds : \E i, j \in ShiftIds :
        /\ i /= j
        /\ d[i].date = d[j].date
        /\ time_overlap(d[i].start_time, d[i].end_time,
                        d[j].start_time, d[j].end_time)
        /\ sid \in Range(ListOf(d, m, i))
        /\ sid \in Range(ListOf(d, m, j))

----------------------------------------------------------------------------
(* Properties *)

\* C1: no double-booking.  A step of the pass never takes shifts that are
\* free of double-booking to shifts in which one staff id is listed by two
\* distinct shifts of the same date with overlapping windows, counting the
\* lists the pass extended and the lists stored before it.
C1_NoDoubleBooking ==
    [][~DoubleBooked(db, docs) => ~DoubleBooked(db', docs')]_vars

\* C2: whenever an iteration appends at least one staff id to a shift, the
\* shift is written back: the stored list is the new list, the stored status
\* is "published", and the shift is among the updated ones.
C2_AppendIsPersisted ==
    (Visited /\ Len(assigned) > Len(assigned_in)) =>
        /\ db[Cur].has_assigned
        /\ db[Cur].assigned_staff_ids = assigned
        /\ db[Cur].status = "published"
        /\ Cur \in Range(updates)

\* C3: a shift is never over-filled.  Stored and in-memory lists stay within
\* required_count, and an iteration that appended started below
\* required_count and ended within it.
C3_NeverOverfilled ==
    /\ \A i \in ShiftIds : Len(GetAssigned(db[i])) <= db[i].required_count
    /\ \A i \in DOMAIN docs : Len(GetAssigned(docs[i])) <= docs[i].required_count
    /\ Visited => /\ Len(assigned) <= Needed
                  /\ Len(assigned) > Len(assigned_in) => Len(assigned_in) < Needed

\* C3 witness: an iteration filled the shift exactly and left a scored
\* candidate unused.
C3_Witness ==
    /\ Attempted
    /\ Len(assigned) = Needed
    /\ Len(scored) > Len(assigned) - Len(assigned_in)

\* C4: every staff member an iteration newly assigns has the shift's role,
\* has no preference or prefers the shift's type, and has an availability
\* window on the shift's weekday that contains the whole shift.
C4_HardConstraints ==
    Attempted =>
        \A sid \in NewIds :
            LET s == staff_db[sid]
                sh == docs[Cur]
            IN  /\ s.role = sh.required_role
                /\ s.preferred_shift = None \/ s.preferred_shift = sh.type
                /\ \E a \in s.availability :
                       /\ a.day = DayNames[sh.date]
                       /\ a.start <= sh.start_time
                       /\ a.end >= sh.end_time

\* C4 witness: an iteration assigned somebody while another active staff
\* member of the same role was left out for a mismatched preference or for
\* lack of a containing window.
C4_Witness ==
    /\ Attempted
    /\ NewIds /= {}
    /\ Len(assigned) < Needed
    /\ \E sid \in StaffIds \ Range(assigned) :
           /\ staff_db[sid].is_active
           /\ staff_db[sid].role = docs[Cur].required_role
           /\ \/ staff_db[sid].preferred_shift \notin {None, docs[Cur].type}
              \/ ~\E a \in staff_db[sid].availability :
                      /\ a.day = DayNames[docs[Cur].date]
                      /\ a.start <= docs[Cur].start_time
                      /\ a.end >= docs[Cur].end_time

C6_UntouchedUnchanged ==
    /\ (Visited /\ assigned = assigned_in) =>
           /\ db[Cur] = docs[Cur]
           /\ Cur \notin Range(updates)
    /\ (pc = "done" /\ (shifts = <<>> \/ ActiveStaff = <<>>)) =>
           /\ result.updated = 0
           /\ result.shifts = <<>>

\* C6 witness: a pass ended on a short shift for which nobody was eligible.
C6_Witness ==
    /\ pc = "done"
    /\ Attempted
    /\ assigned = assigned_in
    /\ scored = <<>>
    /\ ActiveStaff /= <<>>

\* C7: idempotence.  In any pass, so also in one run on the result of an
\* earlier pass, a shift that is already filled is not touched, and a shift
\* that is touched was below required_count and keeps every id it had, in
\* memory and in the store.
C7_Idempotent ==
    Visited =>
        /\ Len(assigned_in) >= Needed =>
               /\ assigned = assigned_in
               /\ db[Cur] = docs[Cur]
               /\ Cur \notin Range(updates)
        /\ IsPrefix(assigned_in, assigned)
        /\ Cur \in Range(updates) =>
               /\ Len(assigned_in) < Needed
               /\ IsPrefix(assigned_in, db[Cur].assigned_staff_ids)
               /\ db[Cur].assigned_staff_ids = assigned

\* C7 witness: a later pass visits a shift that an earlier pass wrote and
\* filled, and leaves it alone.
C7_Witness ==
    /\ Visited
    /\ docs[Cur].updated_at > 0
    /\ Len(assigned_in) >= Needed
    /\ Cur \notin Range(updates)

\* C8: the list of a shift never holds the same staff id twice.
C8_NoDuplicateIds ==
    /\ \A i \in ShiftIds : NoDuplicates(GetAssigned(db[i]))
    /\ Visited => (NoDuplicates(assigned_in) => NoDuplicates(assigned))

\* C9: when the loop starts, the tracker holds for each staff id the window
\* and the summed duration of every stored shift that lists the id, whatever
\* the shift's date or status.
C9_TrackerSeesAllShifts ==
    (pc = "loop" /\ idx = 1) =>
        \A sid \in StaffIds :
            /\ \A i \in Listing(sid) : Slot(db[i]) \in Range(assignments[sid])
            /\ staff_hours[sid] = ListedMinutes(Listing(sid))

\* C10: shift_duration_hours is end - start when end > start and
\* end - start + 24 h otherwise, always in (0, 24]; the hours credited to a
\* staff id are exactly the durations of the windows booked for it.
C10_Duration ==
    /\ \A i \in ShiftIds :
           /\ shift_duration_hours(db[i])
                  = ClockDuration(db[i].start_time, db[i].end_time)
           /\ shift_duration_hours(db[i]) \in 1..1440
    /\ \A st, en \in ClockTimes :
           LET sh == [start_time |-> st, end_time |-> en]
           IN  /\ shift_duration_hours(sh) = ClockDuration(st, en)
               /\ shift_duration_hours(sh) \in 1..1440
    /\ \A sid \in StaffIds : staff_hours[sid] = SlotMinutes(assignments[sid])

\* C10 witness: the pass assigned somebody to a shift whose end is not after
\* its start and credited the wrapped duration.
C10_Witness ==
    /\ Attempted
    /\ docs[Cur].end_time <= docs[Cur].start_time
    /\ \E sid \in NewIds :
           staff_hours[sid] >= 1440 + docs[Cur].end_time - docs[Cur].start_time

====
